---- MODULE Spec2Model ----
(***************************************************************************)
(* Next-title-prediction model wrappers: the CNN classifier over           *)
(* co-occurrence images (cnn_encoder_model.py), the T5 sequence model      *)
(* (t5.py) and the sentence encoders (sentence_encoders.py).  Each         *)
(* component has its own specification over the shared variables; a        *)
(* component that a specification does not exercise stays at its idle      *)
(* value.                                                                  *)
(***************************************************************************)
EXTENDS Integers, Sequences, FiniteSets, TLC

VARIABLES
    cnn_config,     \* CNNConfig: cnn_encoder_params, max_seq_len, n_labels
    cnn_model,      \* CNNModelForSequenceClassification after __init__
    cnn_forward,    \* result of one forward pass through the built model
    cnn_tok,        \* outcome of the last NTPCNNModel.tokenize call
    cnn_encoded,    \* the encoded samples tokenize has returned: the batch
    cnn_batch,      \* outcome of NTPCNNModel.prepare_input on the batch
    cnn_valid,      \* outcome of NTPCNNModel.valid_step
    t5_config,      \* NTPT5Config of the model
    t5_gen,         \* NTPT5.generation_config
    t5_training,    \* NTPT5.training (train or evaluation mode)
    t5_tok,         \* outcome of the last NTPT5.tokenize call
    t5_batch,       \* a collated batch of encoded samples
    t5_input,       \* outcome of NTPT5.prepare_input on the batch
    t5_valid,       \* outcome of NTPT5.valid_step
    t5_saved,       \* the dictionary NTPT5Config.to_dict returned
    t5_loaded,      \* the configuration NTPT5Config.from_dict returned
    se_encoder,     \* a SentenceEncoder after __init__
    se_call         \* outcome of the last SentenceEncoder.__call__

vars == <<cnn_config, cnn_model, cnn_forward, cnn_tok, cnn_encoded, cnn_batch,
          t5_config, t5_gen, t5_training, t5_tok, t5_batch, t5_input, t5_valid,
          t5_saved, t5_loaded, cnn_valid, se_encoder, se_call>>

t5_vars == <<t5_config, t5_gen, t5_training, t5_tok, t5_batch, t5_input, t5_valid,
             t5_saved, t5_loaded>>

cnn_build_vars == <<cnn_config, cnn_model, cnn_forward>>
cnn_input_vars == <<cnn_tok, cnn_encoded, cnn_batch>>
se_vars == <<se_encoder, se_call>>

Idle == [status |-> "idle"]

\* ----------------------------------------------------------------------
\* Idle values of the components a specification does not exercise
\* ----------------------------------------------------------------------
EmptyBatch ==
    [input_ids |-> <<>>, attention_mask |-> <<>>, has_labels |-> FALSE,
     labels |-> <<>>, immediate_next_title |-> <<>>]

T5Idle ==
    /\ t5_config = Idle
    /\ t5_gen = Idle
    /\ t5_training = FALSE
    /\ t5_tok = Idle
    /\ t5_batch = EmptyBatch
    /\ t5_input = Idle
    /\ t5_valid = Idle
    /\ t5_saved = Idle
    /\ t5_loaded = Idle

SEIdle ==
    /\ se_encoder = Idle
    /\ se_call = Idle

CNNInputIdle ==
    /\ cnn_tok = Idle
    /\ cnn_encoded = <<>>
    /\ cnn_batch = Idle

CNNIdle ==
    /\ cnn_config = Idle
    /\ cnn_model = Idle
    /\ cnn_forward = Idle
    /\ CNNInputIdle

\* ----------------------------------------------------------------------
\* Bounds
\* ----------------------------------------------------------------------
MaxStages == 2
MaxSeqLen == 5
MaxLabels == 4
MaxVocab == 2
MaxRows == 3
MaxBatchLoad == 4
MaxBatchTokens == 5
MaxTasks == 2
MaxInputs == 2
MaxReturn == 2

Channels == {1, 2}
KernelSizes == {1, 3}
TokenIds == {0, 1, 2}

SeqsUpTo(S, n) == UNION {[1..k -> S] : k \in 0..n}

Min(a, b) == IF a <= b THEN a ELSE b

\* ----------------------------------------------------------------------
\* CNNModel.__init__ : analytic output dimension
\* ----------------------------------------------------------------------
kernel_size == 2
dilation == 1
stride == 2

\* A pooling formula with ceil rounding instead of floor.
PoolOutSizeCeil(n) == ((n - dilation * (kernel_size - 1) - 1 + (stride - 1)) \div stride) + 1

\* cnn_encoder_model.py:56-57, one spatial dimension after MaxPool2D
PoolOutSize(n) == ((n - dilation * (kernel_size - 1) - 1) \div stride) + 1

\* zip(input_dims, output_dims): pairs up to the shorter list
Zip(a, b) == [i \in 1..Min(Len(a), Len(b)) |-> <<a[i], b[i]>>]

\* the loop of lines 51-59 run over the first n zipped pairs
RECURSIVE ShapeAfter(_, _, _)
ShapeAfter(pairs, n, hwc) ==
    IF n = 0 THEN hwc
    ELSE LET prev == ShapeAfter(pairs, n - 1, hwc)
         IN  [h |-> PoolOutSize(prev.h), w |-> PoolOutSize(prev.w), c |-> pairs[n][2]]

\* lines 45-61
ComputeOutputDim(cfg) ==
    LET pairs == Zip(cfg.cnn_encoder_params.input_dims, cfg.cnn_encoder_params.output_dims)
        last  == ShapeAfter(pairs, Len(pairs), [h |-> cfg.max_seq_len, w |-> cfg.n_labels, c |-> 1])
    IN  last.h * last.w * last.c

\* ----------------------------------------------------------------------
\* CNNEncoder (encoders.py, not among the sources): a stage per
\* configuration entry, each a size-preserving convolution followed by
\* max-pooling with kernel 2, stride 2, dilation 1.
\* ----------------------------------------------------------------------
pool_kernel == 2
pool_stride == 2
pool_dilation == 1

ListsMatch(p) ==
    /\ Len(p.input_dims) = Len(p.output_dims)
    /\ Len(p.input_dims) = Len(p.kernel_sizes)

Min3(a, b, c) == Min(a, Min(b, c))

StagesOf(p) ==
    [i \in 1..Min3(Len(p.input_dims), Len(p.output_dims), Len(p.kernel_sizes)) |->
        [c_in |-> p.input_dims[i], c_out |-> p.output_dims[i], k |-> p.kernel_sizes[i]]]

\* Outcomes of CNNEncoder(**cnn_encoder_params).  For lists of one length
\* the stack is built.  What the constructor does with lists of different
\* lengths is fixed by no source file: it either rejects them or builds
\* the stages it can pair up.
CNNEncoderInit(p) ==
    IF ListsMatch(p)
    THEN {[status |-> "ok", stages |-> StagesOf(p)]}
    ELSE {[status |-> "ConfigError", stages |-> <<>>],
          [status |-> "ok", stages |-> StagesOf(p)]}

\* number of kernel placements of a convolution with 'same' padding
\* (k - 1 padded cells in total, stride 1) over n cells
ConvSameSize(n, k) ==
    Cardinality({i \in 0..(n + k) : i + (k - 1) <= (n + (k - 1)) - 1})

\* number of pooling windows that fit into n cells without padding
PoolWindows(n) ==
    Cardinality({i \in 0..n : i * pool_stride + pool_dilation * (pool_kernel - 1) <= n - 1})

\* the tensor shape after the first n stages; "error" once a stage's
\* input channel count differs from the channels it is given
RECURSIVE RunStages(_, _, _)
RunStages(stages, n, shape) ==
    IF n = 0 THEN shape
    ELSE LET prev == RunStages(stages, n - 1, shape)
             st   == stages[n]
         IN  IF prev.status # "ok" \/ prev.c # st.c_in
             THEN [status |-> "error", h |-> 0, w |-> 0, c |-> 0]
             ELSE [status |-> "ok",
                   h |-> PoolWindows(ConvSameSize(prev.h, st.k)),
                   w |-> PoolWindows(ConvSameSize(prev.w, st.k)),
                   c |-> st.c_out]

EncoderForward(stages, h, w) ==
    RunStages(stages, Len(stages), [status |-> "ok", h |-> h, w |-> w, c |-> 1])

\* ----------------------------------------------------------------------
\* Actions of the CNN construction
\* ----------------------------------------------------------------------
\* CNNModelForSequenceClassification.__init__ (lines 80-85) with
\* CNNModel.__init__ (lines 35-69)
ConstructCNN ==
    /\ cnn_model.status = "idle"
    /\ \E enc \in CNNEncoderInit(cnn_config.cnn_encoder_params) :
         cnn_model' =
            IF enc.status # "ok"
            THEN [status |-> enc.status, stages |-> <<>>, output_dim |-> -1,
                  head_in_features |-> -1, head_out_features |-> -1]
            ELSE [status |-> "ok", stages |-> enc.stages,
                  output_dim |-> ComputeOutputDim(cnn_config),
                  head_in_features |-> ComputeOutputDim(cnn_config),
                  head_out_features |-> cnn_config.n_labels]
    /\ UNCHANGED <<se_vars, cnn_valid, cnn_config, cnn_forward, cnn_input_vars, t5_vars>>

\* CNNModelForSequenceClassification.forward (lines 87-92) on one image of
\* max_seq_len rows and n_labels columns
ForwardCNN ==
    /\ cnn_model.status = "ok"
    /\ cnn_forward.status = "idle"
    /\ LET out == EncoderForward(cnn_model.stages, cnn_config.max_seq_len, cnn_config.n_labels)
           flat == out.h * out.w * out.c
       IN  cnn_forward' =
             IF out.status # "ok"
             THEN [status |-> "ChannelError", features |-> -1, logits |-> -1]
             ELSE IF flat # cnn_model.head_in_features
             THEN [status |-> "ShapeError", features |-> flat, logits |-> -1]
             ELSE [status |-> "ok", features |-> flat, logits |-> cnn_model.head_out_features]
    /\ UNCHANGED <<se_vars, cnn_valid, cnn_config, cnn_model, cnn_input_vars, t5_vars>>

\* ----------------------------------------------------------------------
\* Properties of the CNN construction
\* ----------------------------------------------------------------------
ValidParams == ListsMatch(cnn_config.cnn_encoder_params)

\* C1: for a configuration whose three lists have one length, the linear
\* head is built with input width equal to the analytic output_dim, and the
\* flattened size (height x width x channels) that the stack of
\* size-preserving convolutions and 2/2/1 max-poolings produces equals it.
C1_OutputDimMatchesStack ==
    (ValidParams /\ cnn_model.status = "ok") =>
        /\ cnn_model.head_in_features = cnn_model.output_dim
        /\ cnn_forward.status \in {"ok", "ShapeError"} =>
              cnn_forward.features = cnn_model.output_dim

\* a two-stage stack over an odd height has run and fed the head
C1_Witness ==
    /\ ValidParams
    /\ cnn_forward.status = "ok"
    /\ Len(cnn_model.stages) = 2
    /\ cnn_config.max_seq_len = 5
    /\ cnn_config.n_labels = 4
    /\ cnn_model.stages[2].c_out = 2
    /\ cnn_forward.features = 2

InitShape ==
    /\ SEIdle
    /\ cnn_valid = Idle
    /\ \E ins \in SeqsUpTo(Channels, MaxStages), outs \in SeqsUpTo(Channels, MaxStages),
          ks \in SeqsUpTo(KernelSizes, MaxStages), m \in 1..MaxSeqLen, n \in 1..MaxLabels :
         cnn_config = [cnn_encoder_params |->
                          [input_dims |-> ins, output_dims |-> outs, kernel_sizes |-> ks],
                       max_seq_len |-> m, n_labels |-> n]
    /\ cnn_model = Idle
    /\ cnn_forward = Idle
    /\ CNNInputIdle
    /\ T5Idle

NextShape == ConstructCNN \/ ForwardCNN

SpecShape == InitShape /\ [][NextShape]_vars

\* ----------------------------------------------------------------------
\* NTPCNNModel.tokenize and NTPCNNModel.prepare_input
\* ----------------------------------------------------------------------
\* Titles are numbered; the label vocabulary of a configuration with n
\* labels is 1..n and any other title is absent from it.
\* label2id = {x: i for i, x in enumerate(all_unique_labels)} (line 219)
label2id(cfg) == [t \in 1..cfg.n_labels |-> t - 1]

InVocab(cfg, t) == t \in DOMAIN label2id(cfg)

\* lines 124-131: the ground-truth title is looked up, the input titles are
\* stored as they are
CNNTokenizeResult(cfg, sample) ==
    IF ~InVocab(cfg, sample.immediate_next_title)
    THEN [status |-> "KeyError"]
    ELSE [status |-> "ok",
          input_dict |-> [labels |-> <<label2id(cfg)[sample.immediate_next_title]>>,
                          titles |-> sample.input_title_sequence]]

\* last_repr after the first n titles (lines 143, 146-147)
RECURSIVE LastRepr(_, _, _)
LastRepr(cfg, titles, n) ==
    IF n = 0 THEN [c \in 0..(cfg.n_labels - 1) |-> 0]
    ELSE [LastRepr(cfg, titles, n - 1) EXCEPT ![label2id(cfg)[titles[n]]] = @ + 1]

\* rows that all alias the one array the loop keeps updating
CountRowsAliased(cfg, titles) ==
    [i \in 1..Len(titles) |-> LastRepr(cfg, titles, Len(titles))]

\* lines 145-148: one copy of last_repr per title
CountRows(cfg, titles) ==
    [i \in 1..Len(titles) |-> LastRepr(cfg, titles, i)]

ZeroRow(cfg) == [c \in 0..(cfg.n_labels - 1) |-> 0]

\* rows left at the length of the sequence
PadRowsNone(cfg, rows) == rows

\* line 154: np.pad with (0, max_seq_len - len) rows of zeros
PadRows(cfg, rows) ==
    rows \o [i \in 1..(cfg.max_seq_len - Len(rows)) |-> ZeroRow(cfg)]

SetMax(S) == CHOOSE x \in S : \A y \in S : y <= x

\* line 155: np.max over all cells
ImageMax(cfg, rows) ==
    SetMax({rows[i][c] : i \in 1..Len(rows), c \in 0..(cfg.n_labels - 1)})

\* line 156: float division of a cell by the maximum; a quotient is kept
\* as numerator and denominator, 0/0 is nan and x/0 is inf
FloatDiv(x, m) ==
    IF m # 0 THEN [kind |-> "num", num |-> x, den |-> m]
    ELSE IF x = 0 THEN [kind |-> "nan", num |-> 0, den |-> 0]
    ELSE [kind |-> "inf", num |-> x, den |-> 0]

\* line 156: unsqueeze(0) puts the matrix under a new first dimension, the
\* channel
Unsqueeze(matrix) == <<matrix>>

\* lines 142-157 for one title sequence; an error names what raised it
ImageRepr(cfg, titles) ==
    IF \E p \in 1..Len(titles) : ~InVocab(cfg, titles[p])
    THEN [status |-> "KeyError", raised_by |-> "label2id", image |-> <<>>]
    ELSE IF Len(titles) = 0
    THEN [status |-> "ValueError", raised_by |-> "np.vstack", image |-> <<>>]
    ELSE IF cfg.max_seq_len - Len(titles) < 0
    THEN [status |-> "ValueError", raised_by |-> "np.pad", image |-> <<>>]
    ELSE LET rows == PadRows(cfg, CountRows(cfg, titles))
             m    == ImageMax(cfg, rows)
         IN  [status |-> "ok", raised_by |-> "",
              image |-> Unsqueeze([i \in 1..Len(rows) |->
                           [c \in 0..(cfg.n_labels - 1) |-> FloatDiv(rows[i][c], m)]])]

\* lines 133-164: the first sequence that raises ends the call
PrepareInputResult(cfg, batch) ==
    LET reprs == [j \in 1..Len(batch) |-> ImageRepr(cfg, batch[j].titles)]
        bad   == {j \in 1..Len(batch) : reprs[j].status # "ok"}
        first == CHOOSE j \in bad : \A k \in bad : j <= k
    IN  IF bad # {}
        THEN [status |-> reprs[first].status, raised_by |-> reprs[first].raised_by,
              image |-> <<>>, labels |-> <<>>]
        ELSE [status |-> "ok", raised_by |-> "",
              image  |-> [j \in 1..Len(batch) |-> reprs[j].image],
              labels |-> [j \in 1..Len(batch) |-> batch[j].labels[1]]]

RECURSIVE TitlesIn(_)
TitlesIn(batch) ==
    IF batch = <<>> THEN 0 ELSE Len(Head(batch).titles) + TitlesIn(Tail(batch))

\* NTPCNNModel.tokenize on one sample of the dataset
CNNTokenize ==
    /\ cnn_tok.status # "KeyError"
    /\ cnn_batch.status = "idle"
    /\ \E n \in 0..MaxBatchLoad :
         /\ TitlesIn(cnn_encoded) + Len(cnn_encoded) + n + 1 <= MaxBatchLoad
         /\ \E titles \in [1..n -> 1..(cnn_config.n_labels + 1)],
               next \in 1..(cnn_config.n_labels + 1) :
              LET r == CNNTokenizeResult(cnn_config,
                          [input_title_sequence |-> titles, immediate_next_title |-> next])
              IN  /\ cnn_tok' = [status |-> r.status]
                  /\ cnn_encoded' = IF r.status = "ok"
                                    THEN Append(cnn_encoded, r.input_dict)
                                    ELSE cnn_encoded
    /\ UNCHANGED <<se_vars, cnn_valid, cnn_build_vars, cnn_batch, t5_vars>>

\* NTPCNNModel.prepare_input on the batch of encoded samples
CNNPrepareInput ==
    /\ cnn_tok.status = "ok"
    /\ cnn_batch.status = "idle"
    /\ Len(cnn_encoded) >= 1
    /\ cnn_batch' = PrepareInputResult(cnn_config, cnn_encoded)
    /\ UNCHANGED <<se_vars, cnn_valid, cnn_build_vars, cnn_tok, cnn_encoded, t5_vars>>

\* ----------------------------------------------------------------------
\* Properties of the CNN input pipeline
\* ----------------------------------------------------------------------
\* occurrences of the label with id c among the first i titles
Occurrences(titles, i, c) ==
    Cardinality({p \in 1..i : label2id(cnn_config)[titles[p]] = c})

WellFormed(titles) ==
    /\ 1 <= Len(titles)
    /\ Len(titles) <= cnn_config.max_seq_len
    /\ \A p \in 1..Len(titles) : InVocab(cnn_config, titles[p])

LabelIds == 0..(cnn_config.n_labels - 1)

\* C3: for title sequences of length 1..max_seq_len over the vocabulary,
\* row i of the image holds for each label column the number of
\* occurrences of that label in positions 0..i divided by the image's
\* maximum, the values do not decrease down a column over the rows of the
\* sequence, and every later row up to max_seq_len is zero.
C3_RunningCountImage ==
    (/\ cnn_batch.status # "idle"
     /\ \A j \in 1..Len(cnn_encoded) : WellFormed(cnn_encoded[j].titles)) =>
        /\ cnn_batch.status = "ok"
        /\ \A j \in 1..Len(cnn_encoded) :
             LET titles == cnn_encoded[j].titles
                 n      == Len(titles)
                 img    == cnn_batch.image[j][1]
                 top    == SetMax({Occurrences(titles, n, c) : c \in LabelIds})
             IN  /\ Len(img) = cnn_config.max_seq_len
                 /\ \A i \in 1..n, c \in LabelIds :
                      img[i][c] = [kind |-> "num", num |-> Occurrences(titles, i, c), den |-> top]
                 /\ \A i \in 1..(n - 1), c \in LabelIds :
                      img[i][c].num * img[i + 1][c].den <= img[i + 1][c].num * img[i][c].den
                 /\ \A i \in (n + 1)..cnn_config.max_seq_len, c \in LabelIds :
                      img[i][c].kind = "num" /\ img[i][c].num = 0

\* an image has been built for a two-title sequence that repeats a label,
\* with a padded row below it
C3_Witness ==
    /\ cnn_batch.status = "ok"
    /\ cnn_config.max_seq_len = 3
    /\ cnn_config.n_labels = 2
    /\ \E j \in 1..Len(cnn_encoded) :
         /\ cnn_encoded[j].titles = <<2, 2>>
         /\ cnn_batch.image[j][1][1][1] = [kind |-> "num", num |-> 1, den |-> 2]
         /\ cnn_batch.image[j][1][3][1].num = 0

\* a sequence that contributes no occurrence of any label
Degenerate(titles) == \A p \in 1..Len(titles) : ~InVocab(cnn_config, titles[p])

\* C8: when a sequence of the batch contributes no label occurrence
\* (maximum 0 before normalisation) and the other sequences are regular,
\* prepare_input completes and the image of that sequence is all zero.
C8_DegenerateImageIsZero ==
    (/\ cnn_batch.status # "idle"
     /\ \E j \in 1..Len(cnn_encoded) : Degenerate(cnn_encoded[j].titles)
     /\ \A j \in 1..Len(cnn_encoded) :
          \/ Degenerate(cnn_encoded[j].titles) /\ Len(cnn_encoded[j].titles) <= cnn_config.max_seq_len
          \/ WellFormed(cnn_encoded[j].titles)) =>
        /\ cnn_batch.status = "ok"
        /\ \A j \in 1..Len(cnn_encoded) :
             Degenerate(cnn_encoded[j].titles) =>
                \A i \in 1..cnn_config.max_seq_len, c \in LabelIds :
                   cnn_batch.image[j][1][i][c].kind = "num" /\ cnn_batch.image[j][1][i][c].num = 0

\* C9: no encoded sample exists for a sample with a title outside the label
\* vocabulary: tokenize has raised for it.
C9_UnseenTitleFailsAtTokenize ==
    \A j \in 1..Len(cnn_encoded) :
        \A p \in 1..Len(cnn_encoded[j].titles) : InVocab(cnn_config, cnn_encoded[j].titles[p])

TooLong(titles) == Len(titles) > cnn_config.max_seq_len

\* C13: every image of a batch prepare_input has returned has one channel,
\* max_seq_len rows and one column per label, and is the image its title
\* sequence gets as a batch of its own; when a sequence of the batch is
\* longer than max_seq_len prepare_input raises and returns no image, and
\* the error is the one of np.pad (negative pad amount) when nothing before
\* the padding of that sequence raises.
C13_ImageShapeOrPadError ==
    cnn_batch.status # "idle" =>
        /\ cnn_batch.status = "ok" =>
              \A j \in 1..Len(cnn_encoded) :
                 /\ Len(cnn_batch.image[j]) = 1
                 /\ Len(cnn_batch.image[j][1]) = cnn_config.max_seq_len
                 /\ \A i \in 1..Len(cnn_batch.image[j][1]) :
                       DOMAIN cnn_batch.image[j][1][i] = LabelIds
                 /\ cnn_batch.image[j] =
                       PrepareInputResult(cnn_config, <<cnn_encoded[j]>>).image[1]
        /\ (\E j \in 1..Len(cnn_encoded) : TooLong(cnn_encoded[j].titles)) =>
              /\ cnn_batch.status # "ok"
              /\ cnn_batch.image = <<>>
        /\ \A j \in 1..Len(cnn_encoded) :
              (/\ TooLong(cnn_encoded[j].titles)
               /\ \A p \in 1..Len(cnn_encoded[j].titles) :
                     InVocab(cnn_config, cnn_encoded[j].titles[p])
               /\ \A k \in 1..(j - 1) : WellFormed(cnn_encoded[k].titles)) =>
                 /\ cnn_batch.status = "ValueError"
                 /\ cnn_batch.raised_by = "np.pad"

\* prepare_input has raised on a batch whose first sequence has two titles
\* of the vocabulary where max_seq_len is 1
C13_Witness ==
    /\ cnn_config.max_seq_len = 1
    /\ cnn_config.n_labels = 2
    /\ Len(cnn_encoded) = 2
    /\ cnn_encoded[1].titles = <<1, 2>>
    /\ cnn_batch.status = "ValueError"
    /\ cnn_batch.raised_by = "np.pad"

\* the configuration of cnn_model_main (lines 212-222) with a small
\* vocabulary and max_seq_len
InitInput ==
    /\ SEIdle
    /\ cnn_valid = Idle
    /\ \E m \in 1..MaxRows, n \in 1..MaxVocab :
         cnn_config = [cnn_encoder_params |->
                          [input_dims   |-> <<1, 64, 128, 128, 64, 64>>,
                           output_dims  |-> <<64, 128, 128, 64, 64, 10>>,
                           kernel_sizes |-> <<7, 5, 5, 5, 5, 1>>],
                       max_seq_len |-> m, n_labels |-> n]
    /\ cnn_model = Idle
    /\ cnn_forward = Idle
    /\ CNNInputIdle
    /\ T5Idle

NextInput == CNNTokenize \/ CNNPrepareInput

SpecInput == InitInput /\ [][NextInput]_vars

\* ----------------------------------------------------------------------
\* NTPT5.prepare_input
\* ----------------------------------------------------------------------
\* the pad id of the T5 tokenizer, self.tokenizer.pad_token_id
pad_token_id == 0
\* the label value the loss ignores (line 161)
ignore_index == -100

MaxLenOf(seqs) == SetMax({Len(seqs[j]) : j \in 1..Len(seqs)})

\* padding that stops one position short of the longest sequence
PadSequenceShort(seqs, value) ==
    [j \in 1..Len(seqs) |->
        [p \in 1..(MaxLenOf(seqs) - 1) |-> IF p <= Len(seqs[j]) THEN seqs[j][p] ELSE value]]

\* torch pad_sequence(seqs, batch_first=True, padding_value=value)
PadSequence(seqs, value) ==
    [j \in 1..Len(seqs) |->
        [p \in 1..MaxLenOf(seqs) |-> IF p <= Len(seqs[j]) THEN seqs[j][p] ELSE value]]

\* lm_labels[lm_labels == pad_token_id] = -100 (line 161)
MaskPad(rows) ==
    [j \in 1..Len(rows) |->
        [p \in 1..Len(rows[j]) |-> IF rows[j][p] = pad_token_id THEN ignore_index ELSE rows[j][p]]]

\* lines 149-168
T5PrepareInputResult(batch, training) ==
    [status         |-> "ok",
     input_ids      |-> PadSequence(batch.input_ids, pad_token_id),
     attention_mask |-> PadSequence(batch.attention_mask, pad_token_id),
     has_labels     |-> batch.has_labels,
     labels         |-> IF batch.has_labels
                        THEN MaskPad(PadSequence(batch.labels, pad_token_id))
                        ELSE <<>>,
     has_next_title |-> ~training,
     immediate_next_title |-> IF ~training THEN batch.immediate_next_title ELSE <<>>]

RECURSIVE TokensIn(_)
TokensIn(seqs) == IF seqs = <<>> THEN 0 ELSE Len(Head(seqs)) + TokensIn(Tail(seqs))

Ones(n) == [p \in 1..n |-> 1]

\* the trainer's collation: one more tokenized sample joins the batch;
\* the token ids are whatever the tokenizer produced for its texts
T5Collate ==
    /\ t5_input.status = "idle"
    /\ \E n \in 1..MaxBatchTokens, k \in 1..MaxBatchTokens :
         /\ TokensIn(t5_batch.input_ids) + TokensIn(t5_batch.labels) + n + k <= MaxBatchTokens
         /\ \E ids \in [1..n -> TokenIds], lab \in [1..k -> TokenIds] :
              t5_batch' = [t5_batch EXCEPT
                             !.input_ids = Append(@, ids),
                             !.attention_mask = Append(@, Ones(n)),
                             !.labels = IF t5_batch.has_labels THEN Append(@, lab) ELSE @,
                             !.immediate_next_title = Append(@, 1)]
    /\ UNCHANGED <<se_vars, cnn_valid, cnn_build_vars, cnn_input_vars, t5_config, t5_gen, t5_training,
                   t5_tok, t5_input, t5_valid, t5_saved, t5_loaded>>

\* NTPT5.prepare_input on the collated batch
T5PrepareInput ==
    /\ t5_input.status = "idle"
    /\ Len(t5_batch.input_ids) >= 1
    /\ t5_input' = T5PrepareInputResult(t5_batch, t5_training)
    /\ UNCHANGED <<se_vars, cnn_valid, cnn_build_vars, cnn_input_vars, t5_config, t5_gen, t5_training,
                   t5_tok, t5_batch, t5_valid, t5_saved, t5_loaded>>

\* ----------------------------------------------------------------------
\* Properties of NTPT5.prepare_input
\* ----------------------------------------------------------------------
UniformLength(rows, seqs) ==
    /\ Len(rows) = Len(seqs)
    /\ \A j \in 1..Len(seqs) : Len(rows[j]) = MaxLenOf(seqs)

TokensKept(rows, seqs) ==
    \A j \in 1..Len(seqs) : \A p \in 1..Len(seqs[j]) : rows[j][p] = seqs[j][p]

TailIgnored(rows, seqs) ==
    \A j \in 1..Len(seqs) : \A p \in (Len(seqs[j]) + 1)..Len(rows[j]) : rows[j][p] = ignore_index

\* C4 as stated: every field is padded to the longest sequence of that
\* field in the batch, every original token of every field is kept at its
\* position, and the label positions beyond a sequence's length hold -100.
C4_EveryTokenKept ==
    t5_input.status = "ok" =>
        /\ UniformLength(t5_input.input_ids, t5_batch.input_ids)
        /\ UniformLength(t5_input.attention_mask, t5_batch.attention_mask)
        /\ TokensKept(t5_input.input_ids, t5_batch.input_ids)
        /\ TokensKept(t5_input.attention_mask, t5_batch.attention_mask)
        /\ t5_batch.has_labels =>
              /\ UniformLength(t5_input.labels, t5_batch.labels)
              /\ TokensKept(t5_input.labels, t5_batch.labels)
              /\ TailIgnored(t5_input.labels, t5_batch.labels)

\* C4 amended: as above, except that in the labels an original token equal
\* to the pad id is rewritten to -100 as well; every other label token is
\* kept at its position.
C4_TokensKeptExceptPadLabels ==
    t5_input.status = "ok" =>
        /\ UniformLength(t5_input.input_ids, t5_batch.input_ids)
        /\ UniformLength(t5_input.attention_mask, t5_batch.attention_mask)
        /\ TokensKept(t5_input.input_ids, t5_batch.input_ids)
        /\ TokensKept(t5_input.attention_mask, t5_batch.attention_mask)
        /\ t5_batch.has_labels =>
              /\ UniformLength(t5_input.labels, t5_batch.labels)
              /\ \A j \in 1..Len(t5_batch.labels) : \A p \in 1..Len(t5_batch.labels[j]) :
                    t5_input.labels[j][p] =
                       IF t5_batch.labels[j][p] = pad_token_id
                       THEN ignore_index ELSE t5_batch.labels[j][p]
              /\ TailIgnored(t5_input.labels, t5_batch.labels)

\* a batch of two samples with label sequences of different lengths, one
\* holding the pad id, has been padded
C4_Witness ==
    /\ t5_input.status = "ok"
    /\ t5_batch.has_labels
    /\ t5_batch.input_ids = <<<<1>>, <<2>>>>
    /\ t5_batch.labels = <<<<2, 0>>, <<1>>>>
    /\ t5_input.labels = <<<<2, ignore_index>>, <<1, ignore_index>>>>
    /\ t5_input.input_ids = <<<<1>>, <<2>>>>

InitPad ==
    /\ SEIdle
    /\ cnn_valid = Idle
    /\ CNNIdle
    /\ t5_config = Idle
    /\ t5_gen = Idle
    /\ t5_training \in BOOLEAN
    /\ t5_tok = Idle
    /\ \E hl \in BOOLEAN : t5_batch = [EmptyBatch EXCEPT !.has_labels = hl]
    /\ t5_input = Idle
    /\ t5_valid = Idle
    /\ t5_saved = Idle
    /\ t5_loaded = Idle

NextPad == T5Collate \/ T5PrepareInput

SpecPad == InitPad /\ [][NextPad]_vars

\* ----------------------------------------------------------------------
\* Task templates (templates.py, not among the sources): a task is a class
\* tag with its constructor parameters; to_json gives the pair (tag,
\* parameters) and Task.from_eval builds the task of that tag from them.
\* ----------------------------------------------------------------------
TaskObject(cls, params) == [cls |-> cls, params |-> params]

Tasks ==
    {TaskObject("DirectNTP", <<>>),
     TaskObject("DirectNTPSideInfo", <<>>),
     TaskObject("BoolNTP", <<1, 2>>)}

to_json(task) == <<task.cls, task.params>>

from_eval(cls, params) == TaskObject(cls, params)

\* the default of the test_task parameter (line 26)
DefaultTestTask == TaskObject("DirectNTP", <<>>)

\* ----------------------------------------------------------------------
\* NTPT5Config
\* ----------------------------------------------------------------------
None == [kind |-> "None"]

NdArray(items) == [kind |-> "ndarray", items |-> items]
List(items) == [kind |-> "list", items |-> items]

\* NTPT5Config.__init__ (lines 24-37)
NTPT5ConfigInit(training_tasks, test_task, all_unique_labels) ==
    [training_tasks    |-> IF training_tasks # None THEN training_tasks ELSE List(<<>>),
     test_task         |-> test_task,
     all_unique_labels |-> IF all_unique_labels # None THEN all_unique_labels ELSE NdArray(<<>>)]

\* NTPT5Config.to_dict (lines 70-77) applied to the copy of the attributes
\* that the base class returns; self is the configuration after the call
ToDict(cfg) ==
    LET super_dict == cfg
    IN  [self |-> cfg,
         dict |-> [training_tasks    |-> List([i \in 1..Len(super_dict.training_tasks.items) |->
                                                 to_json(super_dict.training_tasks.items[i])]),
                   has_test_task     |-> TRUE,
                   test_task         |-> to_json(super_dict.test_task),
                   all_unique_labels |-> List(super_dict.all_unique_labels.items)]]

\* from_dict that rebuilds the training tasks in reverse order
FromDictReversed(config_dict, kwargs) ==
    LET n == Len(config_dict.training_tasks.items)
    IN  NTPT5ConfigInit(
            List([i \in 1..n |->
                    from_eval(config_dict.training_tasks.items[n + 1 - i][1],
                              config_dict.training_tasks.items[n + 1 - i][2])]),
            from_eval(config_dict.test_task[1], config_dict.test_task[2]),
            config_dict.all_unique_labels)

\* NTPT5Config.from_dict (lines 39-67)
FromDict(config_dict, kwargs) ==
    LET training_tasks ==
            IF kwargs.training_tasks # None
            THEN kwargs.training_tasks
            ELSE List([i \in 1..Len(config_dict.training_tasks.items) |->
                         from_eval(config_dict.training_tasks.items[i][1],
                                   config_dict.training_tasks.items[i][2])])
        test_task ==
            IF kwargs.test_task # None
            THEN kwargs.test_task
            ELSE IF config_dict.has_test_task
            THEN from_eval(config_dict.test_task[1], config_dict.test_task[2])
            ELSE DefaultTestTask
        all_unique_labels ==
            IF kwargs.all_unique_labels # None
            THEN kwargs.all_unique_labels
            ELSE config_dict.all_unique_labels
    IN  NTPT5ConfigInit(training_tasks, test_task, all_unique_labels)

NoKwargs == [training_tasks |-> None, test_task |-> None, all_unique_labels |-> None]

\* the keyword arguments a caller may pass to from_dict
KwargsChoices ==
    {NoKwargs,
     [NoKwargs EXCEPT !.training_tasks = List(<<TaskObject("DirectNTPSideInfo", <<>>)>>)],
     [NoKwargs EXCEPT !.test_task = TaskObject("BoolNTP", <<1, 2>>)],
     [NoKwargs EXCEPT !.all_unique_labels = List(<<2>>)]}

\* config.to_dict()
T5ToDict ==
    /\ t5_saved.status = "idle"
    /\ t5_saved' = [status |-> "ok", of |-> t5_config, dict |-> ToDict(t5_config).dict]
    /\ t5_config' = ToDict(t5_config).self
    /\ UNCHANGED <<se_vars, cnn_valid, cnn_build_vars, cnn_input_vars, t5_gen, t5_training,
                   t5_tok, t5_batch, t5_input, t5_valid, t5_loaded>>

\* NTPT5Config.from_dict(saved dictionary, **kwargs)
T5FromDict ==
    /\ t5_saved.status = "ok"
    /\ t5_loaded.status = "idle"
    /\ \E kwargs \in KwargsChoices :
         t5_loaded' = [status |-> "ok", kwargs |-> kwargs,
                       config |-> FromDict(t5_saved.dict, kwargs)]
    /\ UNCHANGED <<se_vars, cnn_valid, cnn_build_vars, cnn_input_vars, t5_config, t5_gen, t5_training,
                   t5_tok, t5_batch, t5_input, t5_valid, t5_saved>>

\* label lists without repetition, as all_unique_labels holds them
UniqueLabelLists ==
    {l \in SeqsUpTo(1..MaxVocab, MaxVocab) : \A i, j \in 1..Len(l) : i # j => l[i] # l[j]}

InitConfig ==
    /\ SEIdle
    /\ cnn_valid = Idle
    /\ CNNIdle
    /\ \E tt \in SeqsUpTo(Tasks, MaxTasks), t \in Tasks, l \in UniqueLabelLists,
          arr \in BOOLEAN :
         t5_config = NTPT5ConfigInit(List(tt), t, IF arr THEN NdArray(l) ELSE List(l))
    /\ t5_gen = Idle
    /\ t5_training = FALSE
    /\ t5_tok = Idle
    /\ t5_batch = EmptyBatch
    /\ t5_input = Idle
    /\ t5_valid = Idle
    /\ t5_saved = Idle
    /\ t5_loaded = Idle

NextConfig == T5ToDict \/ T5FromDict

SpecConfig == InitConfig /\ [][NextConfig]_vars

\* ----------------------------------------------------------------------
\* Properties of NTPT5Config
\* ----------------------------------------------------------------------
\* C5: without overriding keyword arguments, from_dict(to_dict(config))
\* has the labels of config at the same positions, as many training tasks
\* in the same order, each rebuilt from the (tag, parameters) pair of the
\* task at that position, and the test task rebuilt from the test task's
\* pair; to_dict leaves the tasks and labels of config as they were.
C5_ConfigRoundTrip ==
    /\ t5_saved.status = "ok" =>
          /\ t5_config.training_tasks = t5_saved.of.training_tasks
          /\ t5_config.test_task = t5_saved.of.test_task
          /\ t5_config.all_unique_labels = t5_saved.of.all_unique_labels
    /\ (t5_loaded.status = "ok" /\ t5_loaded.kwargs = NoKwargs) =>
          LET old == t5_saved.of
              new == t5_loaded.config
          IN  /\ new.all_unique_labels.items = old.all_unique_labels.items
              /\ Len(new.training_tasks.items) = Len(old.training_tasks.items)
              /\ \A i \in 1..Len(old.training_tasks.items) :
                    new.training_tasks.items[i] =
                       from_eval(to_json(old.training_tasks.items[i])[1],
                                 to_json(old.training_tasks.items[i])[2])
              /\ new.test_task = from_eval(to_json(old.test_task)[1], to_json(old.test_task)[2])
              /\ new.test_task = old.test_task

\* a configuration with two different training tasks, another test task
\* and two labels has been saved and reloaded
C5_Witness ==
    /\ t5_loaded.status = "ok"
    /\ t5_loaded.kwargs = NoKwargs
    /\ t5_saved.of.training_tasks.items =
          <<TaskObject("BoolNTP", <<1, 2>>), TaskObject("DirectNTP", <<>>)>>
    /\ t5_saved.of.test_task = TaskObject("DirectNTPSideInfo", <<>>)
    /\ t5_saved.of.all_unique_labels = NdArray(<<2, 1>>)
    /\ t5_loaded.config.all_unique_labels = List(<<2, 1>>)

\* ----------------------------------------------------------------------
\* NTPT5.tokenize, NTPT5.set_test_task and the training mode
\* ----------------------------------------------------------------------
\* line 138: the tasks the call may render the sample with
\* (random.choice over the training tasks, or the test task)
TaskChoicesAlwaysSampled(cfg, training) ==
    {cfg.training_tasks.items[i] : i \in 1..Len(cfg.training_tasks.items)}

TaskChoices(cfg, training) ==
    IF training
    THEN {cfg.training_tasks.items[i] : i \in 1..Len(cfg.training_tasks.items)}
    ELSE {cfg.test_task}

\* lines 132-147 with the task the call uses; the token ids are the
\* tokenizer's, the encoded sample is kept as the task that rendered it and
\* the ground-truth title
T5TokenizeUsing(task, next_title) ==
    /\ task \in TaskChoices(t5_config, t5_training)
    /\ t5_tok' = [status |-> "ok", training |-> t5_training, task |-> task,
                  encoded_sequence |-> [rendered_by |-> task,
                                        immediate_next_title |-> next_title]]
    /\ UNCHANGED <<se_vars, cnn_valid, cnn_build_vars, cnn_input_vars, t5_config, t5_gen, t5_training,
                   t5_batch, t5_input, t5_valid, t5_saved, t5_loaded>>

\* NTPT5.tokenize on one sample
T5Tokenize ==
    /\ t5_tok.status # "IndexError"
    /\ \E task \in Tasks, next_title \in 1..MaxVocab : T5TokenizeUsing(task, next_title)

\* NTPT5.tokenize in training mode with no training task configured:
\* random.choice raises on the empty list
T5TokenizeEmpty ==
    /\ t5_tok.status # "IndexError"
    /\ TaskChoices(t5_config, t5_training) = {}
    /\ t5_tok' = [status |-> "IndexError"]
    /\ UNCHANGED <<se_vars, cnn_valid, cnn_build_vars, cnn_input_vars, t5_config, t5_gen, t5_training,
                   t5_batch, t5_input, t5_valid, t5_saved, t5_loaded>>

\* NTPT5.set_test_task (lines 129-130)
T5SetTestTask ==
    /\ t5_tok.status # "IndexError"
    /\ \E task \in Tasks : t5_config' = [t5_config EXCEPT !.test_task = task]
    /\ UNCHANGED <<se_vars, cnn_valid, cnn_build_vars, cnn_input_vars, t5_gen, t5_training,
                   t5_tok, t5_batch, t5_input, t5_valid, t5_saved, t5_loaded>>

\* the trainer switches the model between train() and eval()
T5SwitchMode ==
    /\ t5_tok.status # "IndexError"
    /\ t5_training' = ~t5_training
    /\ UNCHANGED <<se_vars, cnn_valid, cnn_build_vars, cnn_input_vars, t5_config, t5_gen,
                   t5_tok, t5_batch, t5_input, t5_valid, t5_saved, t5_loaded>>

InitTok ==
    /\ SEIdle
    /\ cnn_valid = Idle
    /\ CNNIdle
    /\ \E tt \in SeqsUpTo(Tasks, MaxTasks), t \in Tasks :
         t5_config = NTPT5ConfigInit(List(tt), t, List(<<1, 2>>))
    /\ t5_gen = Idle
    /\ t5_training \in BOOLEAN
    /\ t5_tok = Idle
    /\ t5_batch = EmptyBatch
    /\ t5_input = Idle
    /\ t5_valid = Idle
    /\ t5_saved = Idle
    /\ t5_loaded = Idle

NextTok == T5Tokenize \/ T5TokenizeEmpty \/ T5SetTestTask \/ T5SwitchMode

SpecTok == InitTok /\ [][NextTok]_vars

\* ----------------------------------------------------------------------
\* Properties of NTPT5.tokenize
\* ----------------------------------------------------------------------
TokenizeReturns == t5_tok' # t5_tok /\ t5_tok'.status = "ok"

\* C6: a tokenize call in training mode renders with a task of the
\* configured training list and each task of the list can be the one the
\* next call uses, whatever earlier calls used; a call in evaluation mode
\* renders with the test task the configuration holds at that call.
C6_TaskSelection ==
    /\ [][TokenizeReturns =>
            IF t5_training
            THEN \E i \in 1..Len(t5_config.training_tasks.items) :
                    t5_tok'.task = t5_config.training_tasks.items[i]
            ELSE t5_tok'.task = t5_config.test_task]_vars
    /\ [](t5_tok.status # "IndexError" =>
            \A task \in Tasks :
               (ENABLED T5TokenizeUsing(task, 1)) <=>
                  IF t5_training
                  THEN \E i \in 1..Len(t5_config.training_tasks.items) :
                          task = t5_config.training_tasks.items[i]
                  ELSE task = t5_config.test_task)

\* a training-mode call has used the second of two different training
\* tasks, neither of them the test task
C6_Witness ==
    /\ t5_tok.status = "ok"
    /\ Len(t5_config.training_tasks.items) = 2
    /\ t5_config.training_tasks.items[1] # t5_config.training_tasks.items[2]
    /\ t5_config.test_task \notin {t5_config.training_tasks.items[1], t5_config.training_tasks.items[2]}
    /\ t5_training
    /\ t5_tok.training
    /\ t5_tok.task = t5_config.training_tasks.items[2]

\* ----------------------------------------------------------------------
\* NTPT5.__init__ and NTPT5.valid_step
\* ----------------------------------------------------------------------
\* lines 91-108: the num_return_sequences keyword is moved into the
\* generation configuration (default 5 when absent, here always given);
\* the model configuration is built from the keywords the generation
\* configuration did not take, so its num_return_sequences is the one the
\* pretrained checkpoint's configuration carries
NTPT5Init(kw_num_return_sequences, pretrained_num_return_sequences, labels) ==
    [generation_config |-> [num_return_sequences |-> kw_num_return_sequences],
     config |-> [training_tasks    |-> List(<<>>),
                 test_task         |-> DefaultTestTask,
                 all_unique_labels |-> labels,
                 num_return_sequences |-> pretrained_num_return_sequences]]

\* a similarity row holds the cosine similarity of one generated sentence
\* to every label, in the order of all_unique_labels
SimRows(n) == {[i \in 1..n |-> IF i = hot THEN 1 ELSE 0] : hot \in 1..n}

\* sim.argmax(axis=1) for one row: the first index of the maximum
ArgMax(row) ==
    CHOOSE i \in 1..Len(row) :
        /\ \A k \in 1..Len(row) : row[k] <= row[i]
        /\ \A k \in 1..(i - 1) : row[k] < row[i]

\* line 192: all_unique_labels[sim.argmax(axis=1)]
MappedPredictions(labels, sim) ==
    [c \in 1..Len(sim) |-> labels.items[ArgMax(sim[c])]]

\* Python slice seq[a:b] for 0 <= a <= b
Slice(seq, a, b) ==
    LET lo == Min(a, Len(seq))
        hi == Min(b, Len(seq))
    IN  [i \in 1..(hi - lo) |-> seq[lo + i]]

Contains(seq, x) == \E i \in 1..Len(seq) : seq[i] = x

RECURSIVE Flatten(_)
Flatten(lists) == IF lists = <<>> THEN <<>> ELSE Head(lists) \o Flatten(Tail(lists))

RECURSIVE CountTrue(_)
CountTrue(bools) ==
    IF bools = <<>> THEN 0
    ELSE (IF Head(bools) THEN 1 ELSE 0) + CountTrue(Tail(bools))

\* lines 196-198: the list that is summed into matches; j counts from 0
MatchList(mapped_predictions, target_text, num_return_sequences) ==
    [j1 \in 1..Len(target_text) |->
        Contains(Slice(mapped_predictions,
                       (j1 - 1) * num_return_sequences,
                       j1 * num_return_sequences),
                 target_text[j1])]

\* What encode_batch and cos_sim return for an empty list of generated
\* sentences is fixed by no source file: the call ends with an empty
\* similarity matrix or raises.
EmptyGenerationOutcomes == {"ok", "RuntimeError"}

\* lines 176-200 for the sentences generated per input, given as their
\* similarity rows
ValidStepResult(config, target_text, generated, status) ==
    LET sim    == Flatten(generated)
        mapped == MappedPredictions(config.all_unique_labels, sim)
        hits   == MatchList(mapped, target_text, config.num_return_sequences)
    IN  IF status # "ok"
        THEN [status |-> status, target_text |-> target_text, generated |-> generated,
              hits |-> <<>>, result |-> <<>>]
        ELSE [status |-> "ok", target_text |-> target_text, generated |-> generated,
              hits |-> hits, result |-> <<CountTrue(hits), "val_loss">>]

\* NTPT5(...) is constructed
T5Construct ==
    /\ t5_config.status = "idle"
    /\ \E k \in 1..MaxReturn, ck \in 1..MaxReturn :
         LET m == NTPT5Init(k, ck, NdArray(<<1, 2>>))
         IN  /\ t5_gen' = [status |-> "ok"] @@ m.generation_config
             /\ t5_config' = [status |-> "ok"] @@ m.config
    /\ UNCHANGED <<se_vars, cnn_valid, cnn_build_vars, cnn_input_vars, t5_training,
                   t5_tok, t5_batch, t5_input, t5_valid, t5_saved, t5_loaded>>

\* the sentences generate returns for one input: num_return_sequences of
\* them, or none
CandidateLists(n_labels, k) == [1..k -> SimRows(n_labels)] \cup {<<>>}

\* NTPT5.valid_step on a batch in evaluation mode
T5ValidStep ==
    /\ t5_config.status = "ok"
    /\ t5_valid.status = "idle"
    /\ \E b \in 1..MaxInputs :
         \E target_text \in [1..b -> 1..Len(t5_config.all_unique_labels.items)],
            generated \in [1..b -> CandidateLists(Len(t5_config.all_unique_labels.items),
                                                  t5_gen.num_return_sequences)] :
            \E status \in IF Flatten(generated) = <<>> THEN EmptyGenerationOutcomes ELSE {"ok"} :
               t5_valid' = ValidStepResult(t5_config, target_text, generated, status)
    /\ UNCHANGED <<se_vars, cnn_valid, cnn_build_vars, cnn_input_vars, t5_config, t5_gen, t5_training,
                   t5_tok, t5_batch, t5_input, t5_saved, t5_loaded>>

InitValid ==
    /\ SEIdle
    /\ cnn_valid = Idle
    /\ CNNIdle
    /\ T5Idle

NextValid == T5Construct \/ T5ValidStep

SpecValid == InitValid /\ [][NextValid]_vars

\* ----------------------------------------------------------------------
\* Properties of NTPT5.valid_step
\* ----------------------------------------------------------------------
\* the labels the candidates generated for input j map to
OwnLabels(j) ==
    {t5_config.all_unique_labels.items[ArgMax(t5_valid.generated[j][c])] :
        c \in 1..Len(t5_valid.generated[j])}

FullGeneration ==
    \A j \in 1..Len(t5_valid.generated) :
        Len(t5_valid.generated[j]) = t5_gen.num_return_sequences

\* C2: with k = the number of returned sequences generation used and k
\* candidates generated for every input, the match count is the number of
\* inputs whose ground truth is among the labels mapped from the k
\* candidates of that same input.
C2_MatchesCountOwnBlock ==
    (t5_valid.status = "ok" /\ FullGeneration) =>
        t5_valid.result[1] =
            Cardinality({j \in 1..Len(t5_valid.target_text) :
                            t5_valid.target_text[j] \in OwnLabels(j)})

MaxSentences == 3
MaxBatchSize == 3

\* the sentences of the runs: word ids; two of one word, one of two words
SentencePool == {<<1>>, <<2>>, <<1, 2>>}

\* special tokens of the BERT vocabulary
cls_token_id == 101
sep_token_id == 102
bert_pad_token_id == 0

Ceil(n, b) == (n + b - 1) \div b

\* datasets.Dataset.iter(batch_size) (line 28): consecutive slices of at
\* most batch_size rows in input order, the last one shorter
IterBatches(sentences, batch_size) ==
    [c \in 1..Ceil(Len(sentences), batch_size) |->
        SubSeq(sentences, (c - 1) * batch_size + 1,
               Min(c * batch_size, Len(sentences)))]

\* line 107: tokenizer(batch, padding=True): [CLS] words [SEP], every row
\* padded to the longest row of the batch, the attention mask marks the
\* real tokens
BertTokenize(batch_sentences) ==
    LET rows   == [j \in 1..Len(batch_sentences) |->
                      <<cls_token_id>> \o batch_sentences[j] \o <<sep_token_id>>]
        padded == PadSequence(rows, bert_pad_token_id)
    IN  [input_ids      |-> padded,
         attention_mask |-> [j \in 1..Len(rows) |->
                                [q \in 1..Len(padded[j]) |->
                                    IF q <= Len(rows[j]) THEN 1 ELSE 0]]]

\* BertSentenceEncoder.encode_batch (lines 106-115).  The fusion over
\* dim=1 (lines 88, 93) runs over every position of the padded row, pad
\* positions included: the fused vector of a row is the value the network
\* and the two fusions give for that padded row, written here as the row it
\* is computed from.  The result is a torch tensor.
BertEncodeBatch(encoder, batch_sentences) ==
    LET tokenized_sentences == BertTokenize(batch_sentences)
    IN  [type |-> "Tensor",
         rows |-> [j \in 1..Len(batch_sentences) |->
                      [fusion          |-> encoder.token_fusion_strat,
                       fused_positions |-> tokenized_sentences.input_ids[j]]]]

\* SentenceTransformerEncoder.encode_batch (lines 54-55): model.encode with
\* its defaults returns a numpy array, one row per sentence, pooled over
\* the real tokens only
STEncodeBatch(encoder, batch_sentences) ==
    [type |-> "ndarray",
     rows |-> [j \in 1..Len(batch_sentences) |->
                  [fusion          |-> encoder.token_fusion_strat,
                   fused_positions |-> batch_sentences[j]]]]

\* encode_batch of the encoder's class
EncodeBatch(encoder, batch_sentences) ==
    IF encoder.class = "BertSentenceEncoder"
    THEN BertEncodeBatch(encoder, batch_sentences)
    ELSE STEncodeBatch(encoder, batch_sentences)

\* line 40: torch.vstack(outputs).numpy(); vstack takes a non-empty list of
\* tensors
VStack(outputs) ==
    IF outputs = <<>> THEN [status |-> "RuntimeError", rows |-> <<>>]
    ELSE IF \E c \in 1..Len(outputs) : outputs[c].type # "Tensor"
         THEN [status |-> "TypeError", rows |-> <<>>]
         ELSE [status |-> "ok",
               rows |-> Flatten([c \in 1..Len(outputs) |-> outputs[c].rows])]

\* SentenceEncoder.__call__ (lines 23-40)
CallResult(encoder, sentences) ==
    LET batches == IterBatches(sentences, encoder.batch_size)
        outputs == [c \in 1..Len(batches) |-> EncodeBatch(encoder, batches[c])]
        stacked == VStack(outputs)
    IN  [status    |-> stacked.status,
         sentences |-> sentences,
         calls     |-> batches,
         result    |-> stacked.rows]

SECall ==
    /\ se_encoder.status = "ok"
    /\ \E sentences \in SeqsUpTo(SentencePool, MaxSentences) :
         se_call' = CallResult(se_encoder, sentences)
    /\ UNCHANGED <<se_encoder, cnn_valid, cnn_build_vars, cnn_input_vars, t5_vars>>

\* the encoders after __init__ (lines 16-17, 45-52, 60-83)
EncoderChoices ==
    {[status |-> "ok", class |-> "SentenceTransformerEncoder", batch_size |-> b,
      token_fusion_strat |-> "pooling"] : b \in 1..MaxBatchSize}
    \cup
    {[status |-> "ok", class |-> "BertSentenceEncoder", batch_size |-> b,
      token_fusion_strat |-> f] : b \in 1..MaxBatchSize, f \in {"sum", "mean"}}

InitEncode ==
    /\ CNNIdle
    /\ cnn_valid = Idle
    /\ T5Idle
    /\ se_encoder \in EncoderChoices
    /\ se_call = Idle

NextEncode == SECall

SpecEncode == InitEncode /\ [][NextEncode]_vars

\* C11: a call on n >= 1 sentences with batch size b >= 1 returns, has
\* called encode_batch on ceil(n/b) consecutive chunks of at most b
\* sentences in input order, and returns n rows that are the rows of
\* encoding all the sentences as one chunk.
C11_ChunkingPreservesResult ==
    (se_call.status # "idle" /\ Len(se_call.sentences) >= 1) =>
        /\ se_call.status = "ok"
        /\ Len(se_call.calls) = Ceil(Len(se_call.sentences), se_encoder.batch_size)
        /\ \A c \in 1..Len(se_call.calls) :
              Len(se_call.calls[c]) \in 1..se_encoder.batch_size
        /\ Flatten(se_call.calls) = se_call.sentences
        /\ Len(se_call.result) = Len(se_call.sentences)
        /\ se_call.result = EncodeBatch(se_encoder, se_call.sentences).rows

\* ----------------------------------------------------------------------
\* The validation step of the two wrappers, as a trainer calls it
\* ----------------------------------------------------------------------
\* id2label = {i: x for i, x in enumerate(all_unique_labels)} (line 220)
id2label(cfg) == [i \in 0..(cfg.n_labels - 1) |-> i + 1]

\* one row of the logits the forward pass returns (line 179): a score per
\* label, ties included
LogitRows(n_labels) == [1..n_labels -> {0, 1}]

\* NTPCNNModel.valid_step (lines 177-192) on the logits of the forward pass
\* and the labels of the batch; argmax(1) counts the classes from 0
CNNValidStepResult(cfg, output, truth) ==
    LET predictions == [j \in 1..Len(output) |-> ArgMax(output[j]) - 1]
    IN  [status |-> "ok",
         output |-> output,
         result |-> <<[j \in 1..Len(predictions) |-> id2label(cfg)[predictions[j]]],
                      [j \in 1..Len(truth) |-> id2label(cfg)[truth[j]]],
                      "val_loss">>]

CNNValidStep ==
    /\ cnn_config # Idle
    /\ cnn_valid.status = "idle"
    /\ \E b \in 1..MaxInputs :
         \E output \in [1..b -> LogitRows(cnn_config.n_labels)],
            truth \in [1..b -> 0..(cnn_config.n_labels - 1)] :
            cnn_valid' = CNNValidStepResult(cnn_config, output, truth)
    /\ UNCHANGED <<se_vars, cnn_build_vars, cnn_input_vars, t5_vars>>

\* the trainer holds one wrapper: the CNN model of cnn_model_main or the T5
\* model of t5_main
InitStep ==
    /\ SEIdle
    /\ cnn_valid = Idle
    /\ cnn_model = Idle
    /\ cnn_forward = Idle
    /\ CNNInputIdle
    /\ t5_training = FALSE
    /\ t5_tok = Idle
    /\ t5_batch = EmptyBatch
    /\ t5_input = Idle
    /\ t5_valid = Idle
    /\ t5_saved = Idle
    /\ t5_loaded = Idle
    /\ \/ /\ \E m \in 1..MaxRows, n \in 1..MaxVocab :
               cnn_config = [cnn_encoder_params |->
                                [input_dims   |-> <<1, 64, 128, 128, 64, 64>>,
                                 output_dims  |-> <<64, 128, 128, 64, 64, 10>>,
                                 kernel_sizes |-> <<7, 5, 5, 5, 5, 1>>],
                             max_seq_len |-> m, n_labels |-> n]
          /\ t5_config = Idle
          /\ t5_gen = Idle
       \/ /\ cnn_config = Idle
          /\ \E k \in 1..MaxReturn, ck \in 1..MaxReturn :
               LET m == NTPT5Init(k, ck, NdArray(<<1, 2>>))
               IN  /\ t5_gen = [status |-> "ok"] @@ m.generation_config
                   /\ t5_config = [status |-> "ok"] @@ m.config

NextStep == CNNValidStep \/ T5ValidStep

SpecStep == InitStep /\ [][NextStep]_vars

\* C12: valid_step of either wrapper returns a triple (predictions or match
\* count, ground truths or none, loss), so both results unpack the same
\* way.
C12_UniformStepContract ==
    /\ cnn_valid.status = "ok" => Len(cnn_valid.result) = 3
    /\ t5_valid.status = "ok" => Len(t5_valid.result) = 3

====
